---- MODULE Spec2Model ----
(***************************************************************************)
(* Model of the fcws experiment pipeline (src/chastewebservice.py,         *)
(* src/fcws/tasks.py, utils.py): one submission to the front end and the   *)
(* CheckExperiment task it schedules, from MakeTempDir to the task's       *)
(* return or raise, with every call it makes: Wget, UnpackArchive,         *)
(* DetermineCompatibility, RunExperiment, Callback, ReportError.           *)
(*                                                                         *)
(* pc is the statement the task is at.  The environment (archive servers,  *)
(* the callback endpoint, the child process, the soft time limit) chooses  *)
(* the result of each blocking call.                                       *)
(*                                                                         *)
(* Spec is the pipeline.  SpecUnpack runs utils.UnpackArchive on its own   *)
(* over every archive of the bounds, SpecPack runs the packaging step of   *)
(* RunExperiment twice over every output tree without a manifest.         *)
(* SpecWorkers runs tasks on a pool of worker processes that share the     *)
(* temporary location, each process with its own os.environ.               *)
(* SpecInterface is the tasks GetModelInterface and GetProtocolInterface.  *)
(***************************************************************************)
EXTENDS Integers, Sequences, FiniteSets, TLC

(* ---------------------------------------------------------------- bounds *)

\* Most entries the child leaves under output/*/*/*.
MaxFiles == 2
\* Number of distinct ontology terms a compatibility result can name.
MaxTerms == 1
\* Worker processes of the pool, and names tempfile.mkdtemp can choose from.
MaxWorkers == 2
MaxTempDirs == 3

(* ------------------------------------------------------------- constants *)

\* celeryconfig.py:40, the loop bound of Callback.  tasks.py:49 reads it under
\* the name weblab_max_callback_attempts, which celeryconfig.py does not
\* define; the model takes the configured value.
WEB_LAB_MAX_CALLBACK_ATTEMPTS == 3
\* tasks.py:53, the base of the backoff in seconds.
BackoffBase == 60
\* tasks.py:66, countdown of the delayed NotifyOfError task (60 * 5).
NotifyCountdown == 300

\* Status codes the callback endpoint answers with; NoResponse stands for a
\* requests.post that raises instead of returning.
StatusCodes == {200, 400, 599}
NoResponse == 0
Responses == StatusCodes \cup {NoResponse}

Terms == 1..MaxTerms

None == "None"
NoError == ""

TerminalTypes == {"success", "partial", "failed", "inapplicable"}

(* ------------------------------------------------------------ file names *)

\* The base names the child may give its output entries, and their characters.
FileNames == {"success", "v_plot_data.csv", "plot_data.csv.bak", "errors.txt",
              "manifest.xml"}

Chars(name) ==
    CASE name = "success" -> <<"s","u","c","c","e","s","s">>
      [] name = "v_plot_data.csv" ->
            <<"v","_","p","l","o","t","_","d","a","t","a",".","c","s","v">>
      [] name = "plot_data.csv.bak" ->
            <<"p","l","o","t","_","d","a","t","a",".","c","s","v",".","b","a","k">>
      [] name = "plot_data.csv" ->
            <<"p","l","o","t","_","d","a","t","a",".","c","s","v">>
      [] name = "errors.txt" -> <<"e","r","r","o","r","s",".","t","x","t">>
      [] name = "manifest.xml" -> <<"m","a","n","i","f","e","s","t",".","x","m","l">>
      [] name = "stdout.txt" -> <<"s","t","d","o","u","t",".","t","x","t">>

\* str.endswith
EndsWith(name, suffix) ==
    LET s == Chars(name)
        t == Chars(suffix)
    IN  /\ Len(s) >= Len(t)
        /\ SubSeq(s, Len(s) - Len(t) + 1, Len(s)) = t

\* What the child wrote into a file of that name before packaging.
ChildData(name) == IF name = "errors.txt" THEN <<"child error">> ELSE <<>>

\* Base names the child may give to a directory at that depth.
DirNames == {"success", "errors.txt"}

\* One entry matched by glob(tempDir/output/*/*/*), a regular file or a
\* directory: the i-th entry of a tree lies in a subfolder of its own, so two
\* entries may share a base name.
OutputEntries ==
    { [name |-> n, isfile |-> TRUE, data |-> ChildData(n)] : n \in FileNames } \cup
    { [name |-> n, isfile |-> FALSE, data |-> <<>>] : n \in DirNames }

RECURSIVE SeqsUpTo(_, _)
SeqsUpTo(S, n) ==
    IF n = 0 THEN {<<>>}
    ELSE LET shorter == SeqsUpTo(S, n - 1)
         IN  shorter \cup { Append(s, x) : s \in {t \in shorter : Len(t) = n - 1}, x \in S }

OutputTrees == SeqsUpTo(OutputEntries, MaxFiles)

TimeoutNotice == "\nExperiment terminated due to exceeding time limit\n"

\* Position of the first TRUE of a sequence of flags, 0 if none: where a
\* for loop with a test and a break stops.
FirstIndex(flags) ==
    IF \E i \in 1..Len(flags) : flags[i]
    THEN CHOOSE i \in 1..Len(flags) :
            /\ flags[i]
            /\ \A j \in 1..(i - 1) : ~flags[j]
    ELSE 0

(* --------------------------------------------------- utils.UnpackArchive *)

\* Most members of a submitted archive, and most content items of its manifest.
MaxEntries == 2
MaxItems == 1

\* A path or file name is the sequence of its pieces: "/" is the separator,
\* a piece that starts with "." is written apart from the stem before it.

\* utils.py:21-24
ContentTypes == {"model", "proto", "dataset", "fittingSpec"}
EXPECTED_EXTENSIONS(contentType) ==
    CASE contentType = "model" -> {".cellml"}
      [] contentType = "proto" -> {".txt", ".xml"}
      [] contentType = "dataset" -> {".csv"}
      [] contentType = "fittingSpec" -> {".txt"}
\* utils.py:26
MANIFEST == <<"manifest", ".xml">>

\* Member names a submitted archive may list.
EntryNames == {MANIFEST, <<"a", ".cellml">>, <<"e", ".cellml">>, <<"b", ".txt">>,
               <<"c", ".xml">>, <<"d", ".csv">>}

\* Values of the location attribute of a manifest's master item.
Locations == {<<>>, <<"/">>, <<"a", ".cellml">>, <<"/", "b", ".txt">>,
              <<"/", "/", "etc">>, <<"..">>, <<"missing", ".cellml">>}

\* The content items of a manifest: only a master item's location is read, and
\* the attribute may be absent (item.get('location') is then None).
ManifestItems ==
    {[master |-> FALSE, located |-> TRUE, location |-> <<".">>],
     [master |-> TRUE, located |-> FALSE, location |-> <<>>]} \cup
    {[master |-> TRUE, located |-> TRUE, location |-> l] : l \in Locations}

\* A manifest.xml is a list of content items, or is not well-formed XML.
Manifests ==
    {[wellFormed |-> TRUE, items |-> items] : items \in SeqsUpTo(ManifestItems, MaxItems)}
    \cup {[wellFormed |-> FALSE, items |-> <<>>]}

\* Sequences over S without repetition, of length at most n.
Listings(S, n) ==
    {s \in SeqsUpTo(S, n) : \A i, j \in DOMAIN s : s[i] = s[j] => i = j}

\* The archives a job may be given: whether the file is a zip at all, the
\* member names in infolist order, and the content of manifest.xml when it is
\* a member.
NoManifest == [wellFormed |-> TRUE, items |-> <<>>]
Archives ==
    {a \in [zip : {TRUE}, entries : Listings(EntryNames, MaxEntries), manifest : Manifests] :
        a.manifest = NoManifest \/ \E i \in DOMAIN a.entries : a.entries[i] = MANIFEST}
    \cup {[zip |-> FALSE, entries |-> <<>>, manifest |-> NoManifest]}

\* os.path.splitext(name)[1]
SplitExt(name) ==
    LET n == Len(name)
    IN  IF n >= 2 /\ name[n] \in {".cellml", ".txt", ".xml", ".csv"} /\ name[n - 1] # "/"
        THEN name[n]
        ELSE ""

\* os.path.join(a, b)
Join(a, b) == IF b # <<>> /\ Head(b) = "/" THEN b ELSE a \o <<"/">> \o b

\* The directory the task works in, and the archive it downloaded there.
tempPath == <<"/", "tmp">>
ArchiveFile(contentType) ==
    CASE contentType = "model" -> <<"model", ".zip">>
      [] contentType = "proto" -> <<"protocol", ".zip">>
      [] contentType = "dataset" -> <<"dataset", ".zip">>
      [] contentType = "fittingSpec" -> <<"fittingSpec", ".zip">>

\* The components of an absolute path, "." and ".." resolved.
PushComponent(acc, cur) ==
    IF cur = <<>> \/ cur = <<".">> THEN acc
    ELSE IF cur = <<"..">>
         THEN IF acc = <<>> THEN acc ELSE SubSeq(acc, 1, Len(acc) - 1)
         ELSE Append(acc, cur)

RECURSIVE Components(_, _, _)
Components(path, cur, acc) ==
    IF path = <<>> THEN PushComponent(acc, cur)
    ELSE IF Head(path) = "/"
         THEN Components(Tail(path), <<>>, PushComponent(acc, cur))
         ELSE Components(Tail(path), Append(cur, Head(path)), acc)

Resolve(path) == Components(path, <<>>, <<>>)

\* output_path = os.path.join(tempPath, contentType)
output_path(contentType) == Join(tempPath, <<contentType>>)

\* What is on disk after archive.extractall(output_path): the system's
\* directories, the downloaded archive, and each member under output_path.
Disk(entries, contentType) ==
    {<<>>, << <<"etc">> >>, Resolve(tempPath),
     Resolve(Join(tempPath, ArchiveFile(contentType))),
     Resolve(output_path(contentType))} \cup
    {Resolve(Join(output_path(contentType), entries[i])) : i \in DOMAIN entries}

\* os.path.exists
Exists(path, disk) == Resolve(path) \in disk

\* What a call of UnpackArchive ends with: the path it returns or the
\* exception it raises.
Returned(path) == [called |-> TRUE, error |-> NoError, detail |-> "", path |-> path]
Raised(e, detail) == [called |-> TRUE, error |-> e, detail |-> detail, path |-> <<>>]
NotCalled == [called |-> FALSE, error |-> NoError, detail |-> "", path |-> <<>>]

\* utils.py:66-72: the first member, in infolist order, that is not the
\* manifest and has an expected extension; empty when the loop finds none.
ExtensionPrimary(entries, contentType) ==
    LET i == FirstIndex([k \in DOMAIN entries |->
                            /\ entries[k] # MANIFEST
                            /\ SplitExt(entries[k]) \in EXPECTED_EXTENSIONS(contentType)])
    IN  IF i = 0 THEN <<>> ELSE entries[i]

\* utils.py:73-81
CheckPrimary(primary_file, entries, contentType) ==
    IF primary_file = <<>>
    THEN Raised("ValueError", "No suitable primary file detected in COMBINE archive")
    ELSE LET primary_path == Join(output_path(contentType), primary_file)
         IN  IF ~Exists(primary_path, Disk(entries, contentType))
             THEN Raised("ValueError", "Declared primary file not present in archive")
             ELSE Returned(primary_path)

\* utils.py:41-81.  zipfile.ZipFile raises BadZipFile on a file that is no
\* zip, ET.parse raises ParseError on a manifest that is not well-formed;
\* primary_file[0] raises TypeError when the master item has no location and
\* IndexError when its location is empty.
Unpacked(archive, contentType, ignoreManifest) ==
    LET entries == archive.entries
        items == archive.manifest.items
        manifest_path == Join(output_path(contentType), MANIFEST)
        i == FirstIndex([k \in DOMAIN items |-> items[k].master])
        byExtension == CheckPrimary(ExtensionPrimary(entries, contentType),
                                    entries, contentType)
    IN  IF ~archive.zip THEN Raised("BadZipFile", "")
        ELSE IF ~ignoreManifest /\ Exists(manifest_path, Disk(entries, contentType))
        THEN IF ~archive.manifest.wellFormed THEN Raised("ParseError", "")
             ELSE IF i = 0 THEN byExtension
             ELSE IF ~items[i].located THEN Raised("TypeError", "")
             ELSE IF items[i].location = <<>> THEN Raised("IndexError", "")
             ELSE LET location == items[i].location
                      primary_file == IF Head(location) = "/" THEN Tail(location)
                                      ELSE location
                  IN  IF primary_file = <<>> THEN byExtension
                      ELSE CheckPrimary(primary_file, entries, contentType)
        ELSE byExtension

(* ----------------------------------------------------------------- state *)

VARIABLES
    pc,                     \* statement the task is at
    task,                   \* name of the task the worker runs
    form,                   \* the fitting fields of the submitted form
    datasetUrl,             \* CheckExperiment's arguments (None when absent)
    fittingSpecUrl,
    tempDirExists,          \* the workspace made by MakeTempDir is on disk
    rmtrees,                \* number of shutil.rmtree calls on the workspace
    missing_terms,          \* DetermineCompatibility's result
    missing_optional_terms,
    compatChecked,          \* DetermineCompatibility has returned
    child,                  \* None, "running", "exited", "killed"
    childLog,               \* what was done to the child, in order
    retcode,
    timeout,                \* RunExperiment's local timeout flag
    tree,                   \* the entries under output/*/*/*, in glob order
    archive,                \* members of output.zip, in namelist order
    outcome,                \* RunExperiment's local outcome
    attempt,                \* Callback's loop variable
    posts,                  \* every POST made, in order
    sleeps,                 \* every backoff sleep of Callback, in seconds
    notifyQueue,            \* NotifyOfError tasks handed to apply_async
    exc,                    \* sys.exc_info()[0].__name__ in the current handler
    firstError,             \* the first error raised outside Callback
    softLimitAt,            \* where SoftTimeLimitExceeded was raised, if it was
    cbRaised,               \* exceptions that left a Callback invocation
    gets,                   \* every URL Wget sent a GET to, in order
    raised,                 \* the exception that left the task, if any
    tempErrors,             \* content of tempDir/errors.txt, empty while absent
    handles,                \* the files the task holds open
    filePos,                \* position of the stream of the archive being uploaded
    packRuns,               \* archives built by packaging run on its own
    unpackIn,               \* arguments of a call of UnpackArchive on its own
    unpackOut,              \* and what that call ended with
    os_environ,             \* os.environ of each worker process
    temp_dirs,              \* the directories under config['temp_dir']
    jobs                    \* the task each worker process is running

vars == <<pc, task, form, datasetUrl, fittingSpecUrl, tempDirExists, rmtrees, missing_terms,
          missing_optional_terms, compatChecked, child, childLog, retcode, timeout,
          tree, archive, outcome, attempt, posts, sleeps, notifyQueue, exc,
          firstError, softLimitAt, cbRaised, gets, raised, tempErrors,
          handles, filePos, packRuns, unpackIn, unpackOut,
          os_environ, temp_dirs, jobs>>

\* Variables of the job's inputs and of the compatibility result.
jobVars == <<task, form, datasetUrl, fittingSpecUrl>>
compatVars == <<missing_terms, missing_optional_terms, compatChecked>>
\* Variables of the supervised child and of packaging.
childVars == <<child, childLog, retcode, timeout, tree>>
packVars == <<archive, outcome, tempErrors>>
\* Variables of the file objects the task opens.
ioVars == <<handles, filePos>>
\* Variables of the functions that are also run on their own.
workerVars == <<os_environ, temp_dirs, jobs>>
pureVars == <<packRuns, unpackIn, unpackOut, workerVars>>
\* Variables written by Callback.
cbVars == <<attempt, posts, sleeps, notifyQueue, cbRaised>>

\* Everything a task writes, but the statement it is at.
taskVars == <<tempDirExists, rmtrees, compatVars, childVars, packVars, ioVars, cbVars,
              exc, firstError, softLimitAt, gets, raised>>

modelUrl == "model"
protocolUrl == "protocol"

\* The worker processes of the pool.
Workers == 1..MaxWorkers
\* The names tempfile.mkdtemp chooses from under config['temp_dir'].
TempDirNames == 1..MaxTempDirs
\* The keys of config['environment'].  A variable of a process holds the
\* value the process was started with until it is assigned the configured one.
EnvironmentKeys == {"PATH", "PYTHONPATH"}
Inherited == [key \in EnvironmentKeys |-> "inherited"]
Configured == [key \in EnvironmentKeys |-> "configured"]
\* A worker without a task; temp_dir is <<>> while the task has made none.
NoJob == [pc |-> "idle", temp_dir |-> <<>>]

\* The pool before any task has run.
WorkersIdle ==
    /\ os_environ = [w \in Workers |-> Inherited]
    /\ temp_dirs = {}
    /\ jobs = [w \in Workers |-> NoJob]

\* The state of a task that has not started.
TaskIdle ==
    /\ tempDirExists = FALSE
    /\ rmtrees = 0
    /\ missing_terms = {}
    /\ missing_optional_terms = {}
    /\ compatChecked = FALSE
    /\ child = None
    /\ childLog = <<>>
    /\ retcode = 0
    /\ timeout = FALSE
    /\ tree = <<>>
    /\ archive = <<>>
    /\ outcome = None
    /\ tempErrors = <<>>
    /\ handles = {}
    /\ filePos = 0
    /\ attempt = 0
    /\ posts = <<>>
    /\ sleeps = <<>>
    /\ notifyQueue = <<>>
    /\ exc = NoError
    /\ firstError = NoError
    /\ softLimitAt = None
    /\ cbRaised = <<>>
    /\ gets = <<>>
    /\ raised = NoError

\* No function is run on its own.
PureIdle ==
    /\ packRuns = <<>>
    /\ unpackIn = [archive |-> [zip |-> FALSE, entries |-> <<>>, manifest |-> NoManifest],
                   contentType |-> "model", ignoreManifest |-> FALSE]
    /\ unpackOut = NotCalled
    /\ WorkersIdle

\* The fitting fields a submitted form may hold; None is a field that is not
\* in the form.
Forms == [fittingSpecUrl : {None, protocolUrl, "fittingSpec"},
          fittingDataUrl : {None, "dataset"}]
NoForm == [fittingSpecUrl |-> None, fittingDataUrl |-> None]

\* A request has been received and a worker is idle.
Init ==
    /\ pc = "Submit"
    /\ task = "CheckExperiment"
    /\ form \in Forms
    /\ datasetUrl = None
    /\ fittingSpecUrl = None
    /\ TaskIdle
    /\ PureIdle

(* ------------------------------------------------------ chastewebservice *)

\* A front end that lets any combination of the fitting fields through.
FittingFieldsComplete_Lenient(f) == TRUE

\* chastewebservice.py:45-48: when either fitting field is in the form, both
\* must be.
FittingFieldsComplete(f) ==
    (f.fittingSpecUrl # None \/ f.fittingDataUrl # None) =>
        (f.fittingSpecUrl # None /\ f.fittingDataUrl # None)

\* fcws.ScheduleExperiment(..., fittingSpecUrl=, fittingDataUrl=): the
\* datasetUrl and fittingSpecUrl arguments of the CheckExperiment task queued.
ScheduleExperiment(fittingSpec, fittingData) == <<fittingData, fittingSpec>>

\* chastewebservice.py:42-70: SendError prints the message and exits; else
\* the experiment is scheduled with the form's fitting URLs, or with None for
\* both, and a worker takes the task.
Submit ==
    /\ pc = "Submit"
    /\ IF ~FittingFieldsComplete(form)
       THEN /\ pc' = "rejected"
            /\ UNCHANGED <<datasetUrl, fittingSpecUrl>>
       ELSE /\ datasetUrl' = ScheduleExperiment(form.fittingSpecUrl, form.fittingDataUrl)[1]
            /\ fittingSpecUrl' = ScheduleExperiment(form.fittingSpecUrl, form.fittingDataUrl)[2]
            /\ pc' = "MakeTempDir"
    /\ UNCHANGED <<task, form, pureVars, taskVars>>

(* ------------------------------------------------------------ exceptions *)

\* The tasks that report the interface of one archive.
InterfaceTasks == {"GetModelInterface", "GetProtocolInterface"}
\* Statements inside the outer try block of an interface task; "Parse" is
\* load_model(main_model_path) or Protocol(main_proto_path), "Terms" the calls
\* that read the terms, "CbInterface" the 'success' Callback.
InterfaceBody == {"MakeTempDir", "WgetModel", "WgetProto", "UnpackModel", "UnpackProto",
                  "Parse", "Terms", "CbInterface"}

\* Statements inside CheckExperiment's try block, before RunExperiment.
CheckBody == {"MakeTempDir", "WgetModel", "WgetProto", "UnpackModel", "UnpackProto",
              "WgetDataset", "UnpackDataset", "FindFittingSpec", "WgetFittingSpec",
              "UnpackFittingSpec", "DetermineCompatibility", "CbInapplicable",
              "RmtreeInapplicable"}
\* Statements inside RunExperiment's outer try block.
RunBody == {"CbRunning", "Popen", "Wait", "Package", "CbOutcome"}
\* Statements that are a Callback invocation.
CallbackPcs == {"CbInapplicable", "CbRunning", "CbOutcome", "CbReportRun", "CbReportCheck",
                "CbInterface", "CbReportParse", "CbReportInterface"}

\* Where an exception raised at statement p of an interface task is handled:
\* the outer except clause calls ReportError (tasks.py:117, 160); one raised
\* by Protocol(main_proto_path) is handled by the inner except clause, which
\* calls ReportError too (tasks.py:145); whatever leaves the inner
\* ReportError is handled by the outer except clause, and whatever leaves
\* the outer one runs the finally clause.
HandlerOfInterface(p) ==
    CASE p = "Parse" /\ task = "GetProtocolInterface" -> "CbReportParse"
      [] p = "Parse" /\ task # "GetProtocolInterface" -> "CbReportInterface"
      [] p \in InterfaceBody \ {"Parse"} -> "CbReportInterface"
      [] p = "CbReportParse" -> "CbReportInterface"
      [] p = "CbReportInterface" -> "InterfaceFinally"

\* Where an exception raised at statement p is handled: CheckExperiment's
\* except clause calls ReportError (a Callback), RunExperiment's does likewise;
\* an exception raised inside RunExperiment's except clause runs its finally
\* clause and reaches CheckExperiment's except clause; one raised inside
\* CheckExperiment's except clause leaves the task.
HandlerOfCheck(p) ==
    CASE p \in CheckBody -> "CbReportCheck"
      [] p \in RunBody -> "CbReportRun"
      [] p = "CbReportRun" -> "RunFinally"
      [] p = "CbReportCheck" -> "done"

\* Where an exception raised at statement p of the task being run is handled.
HandlerOf(p) ==
    IF task \in InterfaceTasks THEN HandlerOfInterface(p) ELSE HandlerOfCheck(p)

\* Raise e at the current statement (Callback's state is left to the caller).
Throw(e) ==
    /\ pc' = HandlerOf(pc)
    /\ exc' = e
    /\ raised' = IF HandlerOf(pc) = "done" THEN e ELSE raised

\* Raise e at the current statement, outside Callback: the handler is a
\* ReportError, whose Callback starts its loop afresh.
Fail(e) ==
    /\ Throw(e)
    /\ firstError' = IF firstError = NoError THEN e ELSE firstError
    /\ attempt' = 0
    /\ UNCHANGED <<posts, sleeps, notifyQueue, cbRaised>>

(* ------------------------------------------------------- CheckExperiment *)

\* if datasetUrl and fittingSpecUrl
IsFit == datasetUrl # None /\ fittingSpecUrl # None

\* tasks.py:280-307: the command line RunExperiment builds, for a fitting run
\* when both paths were set (tasks.py:197-219), else for a standard run.
RunArgs == IF IsFit THEN "fitting" ELSE "standard"

\* The statement after p when p succeeds, in the try block of an interface
\* task (tasks.py:102-108, 137-147).
NextStageInterface(p) ==
    CASE p = "MakeTempDir" ->
            IF task = "GetModelInterface" THEN "WgetModel" ELSE "WgetProto"
      [] p = "WgetModel" -> "UnpackModel"
      [] p = "WgetProto" -> "UnpackProto"
      [] p \in {"UnpackModel", "UnpackProto"} -> "Parse"
      [] p = "Parse" -> "Terms"
      [] p = "Terms" -> "CbInterface"

\* The statement after p when p succeeds, in CheckExperiment's try block.
NextStageCheck(p) ==
    CASE p = "MakeTempDir" -> "WgetModel"
      [] p = "WgetModel" -> "WgetProto"
      [] p = "WgetProto" -> "UnpackModel"
      [] p = "UnpackModel" -> "UnpackProto"
      [] p = "UnpackProto" -> IF IsFit THEN "WgetDataset" ELSE "DetermineCompatibility"
      [] p = "WgetDataset" -> "UnpackDataset"
      [] p = "UnpackDataset" ->
            IF fittingSpecUrl = protocolUrl THEN "FindFittingSpec" ELSE "WgetFittingSpec"
      [] p = "FindFittingSpec" -> "DetermineCompatibility"
      [] p = "WgetFittingSpec" -> "UnpackFittingSpec"
      [] p = "UnpackFittingSpec" -> "DetermineCompatibility"

\* The statement after p when p succeeds, in the task being run.
NextStage(p) ==
    IF task \in InterfaceTasks THEN NextStageInterface(p) ELSE NextStageCheck(p)

\* tempfile.mkdtemp either makes the workspace or raises.
MakeTempDir ==
    /\ pc = "MakeTempDir"
    /\ \E made \in BOOLEAN :
          IF made
          THEN /\ tempDirExists' = TRUE
               /\ pc' = NextStage(pc)
               /\ UNCHANGED <<exc, raised, firstError, cbVars>>
          ELSE /\ Fail("OSError")
               /\ UNCHANGED tempDirExists
    /\ UNCHANGED <<jobVars, pureVars, ioVars, rmtrees, compatVars, childVars, packVars, softLimitAt, gets>>

\* 400 <= r.status_code < 600: the test of Callback, and what
\* Response.raise_for_status raises on.
IsErrorStatus(status) == 400 <= status /\ status < 600

WgetUrl(p) ==
    CASE p = "WgetModel" -> modelUrl
      [] p = "WgetProto" -> protocolUrl
      [] p = "WgetDataset" -> datasetUrl
      [] p = "WgetFittingSpec" -> fittingSpecUrl

\* A Wget that sends the GET again when it fails.
Wget_Retries ==
    /\ pc \in {"WgetModel", "WgetProto", "WgetDataset", "WgetFittingSpec"}
    /\ gets' = Append(gets, WgetUrl(pc))
    /\ \E status \in Responses :
          IF status = NoResponse \/ IsErrorStatus(status)
          THEN UNCHANGED <<pc, exc, raised, firstError, cbVars>>
          ELSE /\ pc' = NextStage(pc)
               /\ UNCHANGED <<exc, raised, firstError, cbVars>>
    /\ UNCHANGED <<jobVars, pureVars, ioVars, tempDirExists, rmtrees, compatVars, childVars, packVars,
                   softLimitAt>>

\* utils.Wget: one requests.get, then raise_for_status, then the body is
\* written to disk.
Wget ==
    /\ pc \in {"WgetModel", "WgetProto", "WgetDataset", "WgetFittingSpec"}
    /\ gets' = Append(gets, WgetUrl(pc))
    /\ \E status \in Responses :
          IF status = NoResponse THEN Fail("ConnectionError")
          ELSE IF IsErrorStatus(status) THEN Fail("HTTPError")
          ELSE /\ pc' = NextStage(pc)
               /\ UNCHANGED <<exc, raised, firstError, cbVars>>
    /\ UNCHANGED <<jobVars, pureVars, ioVars, tempDirExists, rmtrees, compatVars, childVars, packVars,
                   softLimitAt>>

\* The content kind and the ignoreManifest flag of the UnpackArchive call at p
\* (tasks.py:194, 195, 201, 216).
ContentTypeAt(p) ==
    CASE p = "UnpackModel" -> "model"
      [] p = "UnpackProto" -> "proto"
      [] p = "UnpackDataset" -> "dataset"
      [] p = "UnpackFittingSpec" -> "fittingSpec"
IgnoreManifestAt(p) == p = "UnpackDataset"

\* utils.UnpackArchive on the archive that was downloaded: its primary file is
\* found, or the call raises.
UnpackArchive ==
    /\ pc \in {"UnpackModel", "UnpackProto", "UnpackDataset", "UnpackFittingSpec"}
    /\ \E a \in Archives :
          LET result == Unpacked(a, ContentTypeAt(pc), IgnoreManifestAt(pc))
          IN  IF result.error = NoError
              THEN /\ pc' = NextStage(pc)
                   /\ UNCHANGED <<exc, raised, firstError, cbVars>>
              ELSE Fail(result.error)
    /\ UNCHANGED <<jobVars, pureVars, ioVars, tempDirExists, rmtrees, compatVars, childVars, packVars,
                   softLimitAt, gets>>

\* The fitting specification is looked for beside the main protocol file.
FindFittingSpec ==
    /\ pc = "FindFittingSpec"
    /\ \E found \in BOOLEAN :
          IF found
          THEN /\ pc' = NextStage(pc)
               /\ UNCHANGED <<exc, raised, firstError, cbVars>>
          ELSE Fail("ValueError")
    /\ UNCHANGED <<jobVars, pureVars, ioVars, tempDirExists, rmtrees, compatVars, childVars, packVars,
                   softLimitAt, gets>>

\* utils.DetermineCompatibility and the branch on its result: the protocol
\* fails to parse, or the two sets of missing terms come back; a non-empty
\* missing_terms leads to the 'inapplicable' Callback, an empty one to
\* RunExperiment, whose first statement is the 'running' Callback.
DetermineCompatibility ==
    /\ pc = "DetermineCompatibility"
    /\ \E parsed \in BOOLEAN, req \in SUBSET Terms, opt \in SUBSET Terms :
          IF parsed
          THEN /\ missing_terms' = req
               /\ missing_optional_terms' = opt
               /\ compatChecked' = TRUE
               /\ pc' = IF req # {} THEN "CbInapplicable" ELSE "CbRunning"
               /\ attempt' = 0
               /\ UNCHANGED <<exc, raised, firstError, posts, sleeps, notifyQueue,
                              cbRaised>>
          ELSE /\ req = {} /\ opt = {}
               /\ Fail("ProtocolError")
               /\ UNCHANGED compatVars
    /\ UNCHANGED <<jobVars, pureVars, ioVars, tempDirExists, rmtrees, childVars, packVars, softLimitAt,
                   gets>>

\* shutil.rmtree(temp_dir) after the 'inapplicable' Callback returned.
RmtreeInapplicable ==
    /\ pc = "RmtreeInapplicable"
    /\ tempDirExists' = FALSE
    /\ rmtrees' = rmtrees + 1
    /\ pc' = "done"
    /\ UNCHANGED <<jobVars, pureVars, ioVars, compatVars, childVars, packVars, cbVars, exc, firstError,
                   softLimitAt, gets, raised>>

(* --------------------------------------------------------- RunExperiment *)

\* The files RunExperiment opens: the child's stdout log (tasks.py:310), the
\* output zip (tasks.py:348) and the same zip opened for upload (tasks.py:385).
StdoutLog == "stdout.txt"
OutputZip == "output.zip"
UploadStream == "output.zip (rb)"

\* open(child_stdout_name, 'w'), then subprocess.Popen inside the inner try
\* block: the child starts, or the spawn raises OSError; the handler finds
\* child still None and re-raises, and output_file.close() is not reached.
Popen ==
    /\ pc = "Popen"
    /\ handles' = handles \cup {StdoutLog}
    /\ \E spawned \in BOOLEAN :
          IF spawned
          THEN /\ child' = "running"
               /\ childLog' = Append(childLog, "spawn")
               /\ pc' = "Wait"
               /\ UNCHANGED <<exc, raised, firstError, cbVars>>
          ELSE /\ Fail("OSError")
               /\ UNCHANGED <<child, childLog>>
    /\ UNCHANGED <<jobVars, pureVars, filePos, tempDirExists, rmtrees, compatVars, retcode,
                   timeout, tree, packVars, softLimitAt, gets>>

\* time.sleep(5), as an entry of childLog.
GraceSleep == "sleep(5)"

\* A handler that kills the child at once.
TerminateAndKill_KillOnly(log) == log \o <<"kill">>

\* child.terminate(); time.sleep(5); child.kill()
TerminateAndKill(log) == log \o <<"terminate", GraceSleep, "kill">>

\* child.wait() inside the inner try block: the child exits with some code,
\* having left some entries under output/, and output_file.close() follows;
\* or the wait raises, and the second handler terminates and kills the child
\* and re-raises past output_file.close().
Wait ==
    /\ pc = "Wait"
    /\ \E exited \in BOOLEAN, code \in {0, 1}, t \in OutputTrees :
          IF exited
          THEN /\ retcode' = code
               /\ tree' = t
               /\ child' = "exited"
               /\ childLog' = Append(childLog, "exit")
               /\ handles' = handles \ {StdoutLog}
               /\ pc' = "Package"
               /\ UNCHANGED <<exc, raised, firstError, cbVars>>
          ELSE /\ code = 0 /\ t = <<>>
               /\ child' = "killed"
               /\ childLog' = TerminateAndKill(childLog)
               /\ Fail("OSError")
               /\ UNCHANGED <<retcode, tree, handles>>
    /\ UNCHANGED <<jobVars, pureVars, filePos, tempDirExists, rmtrees, compatVars, timeout,
                   packVars, softLimitAt, gets>>

\* Statements that block long enough for the soft time limit to expire in.
Blocking == {"WgetModel", "WgetProto", "UnpackModel", "UnpackProto", "WgetDataset",
             "UnpackDataset", "WgetFittingSpec", "UnpackFittingSpec",
             "DetermineCompatibility", "Popen", "Wait", "Package"}

\* Celery raises SoftTimeLimitExceeded in the task, once.  Inside the inner
\* try block of RunExperiment its handler runs: child.terminate() on a child
\* that is still None raises AttributeError; on a spawned child the handler
\* terminates, sleeps, kills, sets timeout and execution goes on to
\* packaging with whatever the child had written.  Anywhere else the
\* enclosing except clause reports it.
SoftTimeLimit ==
    /\ pc \in Blocking
    /\ softLimitAt = None
    /\ softLimitAt' = pc
    /\ \E t \in OutputTrees :
          IF pc = "Wait"
          THEN /\ child' = "killed"
               /\ childLog' = TerminateAndKill(childLog)
               /\ timeout' = TRUE
               /\ tree' = t
               /\ handles' = handles \ {StdoutLog}
               /\ pc' = "Package"
               /\ UNCHANGED <<exc, raised, firstError, cbVars, retcode>>
          ELSE /\ t = <<>>
               /\ Throw(IF pc = "Popen" THEN "AttributeError" ELSE "SoftTimeLimitExceeded")
               /\ firstError' = IF firstError = NoError THEN "SoftTimeLimitExceeded"
                                ELSE firstError
               /\ attempt' = 0
               /\ handles' = IF pc = "Popen" THEN handles \cup {StdoutLog} ELSE handles
               /\ UNCHANGED <<posts, sleeps, notifyQueue, cbRaised, childVars>>
    /\ UNCHANGED <<jobVars, pureVars, filePos, tempDirExists, rmtrees, compatVars, packVars,
                   gets>>

(* ------------------------------------------------------------- packaging *)

\* Paths are positions in tree; TempErrors is tempDir/errors.txt.
TempErrors == 0

\* A glob that also matches the errors.txt an earlier run left in tempDir.
Glob_TempDirToo ==
    [i \in 1..Len(tree) |-> i] \o (IF tempErrors # <<>> THEN <<TempErrors>> ELSE <<>>)

\* glob.glob(os.path.join(tempDir, 'output', '*', '*', '*'))
Glob == [i \in 1..Len(tree) |-> i]

\* os.path.basename, os.path.isfile
Basename(path) == IF path = TempErrors THEN "errors.txt" ELSE tree[path].name
IsFile(path) == IF path = TempErrors THEN TRUE ELSE tree[path].isfile

RemoveAt(paths, i) == SubSeq(paths, 1, i - 1) \o SubSeq(paths, i + 1, Len(paths))

\* tasks.py:351-354: the loop removes one path named manifest.xml and breaks.
RemoveManifest(paths) ==
    LET i == FirstIndex([k \in 1..Len(paths) |-> Basename(paths[k]) = "manifest.xml"])
    IN  IF i = 0 THEN paths ELSE RemoveAt(paths, i)

\* A packager that never looks for an errors.txt among the outputs.
ErrorFilePath_AlwaysNew(paths) == TempErrors

\* tasks.py:358-363: the first regular file named errors.txt, else a new
\* tempDir/errors.txt.
ErrorFilePath(paths) ==
    LET i == FirstIndex([k \in 1..Len(paths) |->
                            IsFile(paths[k]) /\ Basename(paths[k]) = "errors.txt"])
    IN  IF i = 0 THEN TempErrors ELSE paths[i]

\* tasks.py:355-364: the list of paths after the timeout branch.
WithErrorFile(paths) ==
    IF timeout /\ ErrorFilePath(paths) = TempErrors
    THEN Append(paths, TempErrors)
    ELSE paths

\* output_files as packaging leaves it before the zip loop.
OutputFiles == WithErrorFile(RemoveManifest(Glob))

\* tasks.py:365-367: open(error_file_path, 'a+').write(notice): the content of
\* each path once the notice is written.
DataAfterNotice(path) ==
    LET before == IF path = TempErrors THEN tempErrors ELSE tree[path].data
    IN  IF timeout /\ path = ErrorFilePath(RemoveManifest(Glob))
        THEN Append(before, TimeoutNotice)
        ELSE before

\* tasks.py:349 and 368-370: stdout.txt, then every regular file under its
\* base name.
ZipMembers ==
    LET regular == SelectSeq(OutputFiles, IsFile)
    IN  <<[name |-> "stdout.txt", data |-> <<>>]>> \o
        [i \in 1..Len(regular) |->
            [name |-> Basename(regular[i]), data |-> DataAfterNotice(regular[i])]]

\* ZipFile.namelist()
NameList(members) == [i \in 1..Len(members) |-> members[i].name]

\* A classification that lets a nonzero exit code of the child decide.
Outcome_ExitCodeFirst(namelist) ==
    IF retcode # 0
    THEN "failed"
    ELSE IF \E i \in 1..Len(namelist) : namelist[i] = "success"
         THEN "success"
         ELSE IF \E i \in 1..Len(namelist) : EndsWith(namelist[i], "plot_data.csv")
              THEN "partial"
              ELSE "failed"

\* tasks.py:371-379
Outcome(namelist) ==
    IF \E i \in 1..Len(namelist) : namelist[i] = "success"
    THEN "success"
    ELSE IF \E i \in 1..Len(namelist) : EndsWith(namelist[i], "plot_data.csv")
         THEN "partial"
         ELSE "failed"

\* fc.file_handling.combine_manifest: a manifest listing the given names.
CombineManifest(namelist) == namelist

\* tasks.py:345-383 when no call raises: the notice is written, the archive
\* built, the outcome decided and the manifest added.
WriteArchive ==
    /\ outcome' = Outcome(NameList(ZipMembers))
    /\ archive' = Append(ZipMembers,
                         [name |-> "manifest.xml",
                          data |-> CombineManifest(NameList(ZipMembers))])
    /\ tree' = [i \in 1..Len(tree) |-> [tree[i] EXCEPT !.data = DataAfterNotice(i)]]
    /\ tempErrors' = IF timeout /\ ErrorFilePath(RemoveManifest(Glob)) = TempErrors
                     THEN DataAfterNotice(TempErrors)
                     ELSE tempErrors

\* tasks.py:345-385: the archive is built, the outcome decided, the manifest
\* added, the zip closed and opened again for the upload; or a write to the
\* zip raises an I/O error, and output_zip.close() is not reached.
Package ==
    /\ pc = "Package"
    /\ \E written \in BOOLEAN :
          IF written
          THEN /\ WriteArchive
               /\ handles' = handles \cup {UploadStream}
               /\ filePos' = 0
               /\ pc' = "CbOutcome"
               /\ attempt' = 0
               /\ UNCHANGED <<exc, raised, firstError, posts, sleeps, notifyQueue,
                              cbRaised>>
          ELSE /\ Fail("OSError")
               /\ handles' = handles \cup {OutputZip}
               /\ UNCHANGED <<tree, packVars, filePos>>
    /\ UNCHANGED <<jobVars, pureVars, tempDirExists, rmtrees, compatVars, child, childLog,
                   retcode, timeout, softLimitAt, gets>>

\* RunExperiment's finally clause: shutil.rmtree(tempDir); then the function
\* returns to CheckExperiment, or the exception in flight reaches
\* CheckExperiment's except clause.
RunFinally ==
    /\ pc = "RunFinally"
    /\ tempDirExists' = FALSE
    /\ rmtrees' = rmtrees + 1
    /\ pc' = IF exc = NoError THEN "done" ELSE "CbReportCheck"
    /\ attempt' = 0
    /\ UNCHANGED <<jobVars, pureVars, ioVars, compatVars, childVars, packVars, posts, sleeps, notifyQueue,
                   cbRaised, exc, firstError, softLimitAt, gets, raised>>

(* -------------------------------------------------------------- Callback *)

\* The returntype each Callback call of the task passes.
ReturnType(p) ==
    CASE p = "CbInapplicable" -> "inapplicable"
      [] p = "CbRunning" -> "running"
      [] p = "CbOutcome" -> outcome
      [] p \in {"CbReportRun", "CbReportCheck"} -> "failed"
      [] p = "CbInterface" -> "success"
      [] p \in {"CbReportParse", "CbReportInterface"} -> "failed"

\* tasks.py:99 and 134: the prefixes GetModelInterface and
\* GetProtocolInterface pass to ReportError.
ModelInterfacePrefix ==
    "Unable to determine interface for model due to errors parsing file:\n"
ProtocolInterfacePrefix ==
    "Unable to determine interface for protocol due to errors parsing file:\n"

\* The returnmsg: ReportError's carries the prefix, the name of the type of
\* the exception being handled, str() of it and the flattened traceback; the
\* 'inapplicable' one lists the missing terms.
ReturnMsg(p) ==
    CASE p \in {"CbReportParse", "CbReportInterface"} ->
            [prefix |-> IF task = "GetModelInterface" THEN ModelInterfacePrefix
                        ELSE ProtocolInterfacePrefix,
             type |-> exc, traceback |-> exc, required |-> {}, optional |-> {}]
      [] p \in {"CbReportRun", "CbReportCheck"} ->
            [prefix |-> "failed due to unexpected error: ", type |-> exc,
             traceback |-> exc, required |-> {}, optional |-> {}]
      [] p = "CbInapplicable" ->
            [prefix |-> "inapplicable - required ontology terms are not present in the model.",
             type |-> NoError, traceback |-> NoError,
             required |-> missing_terms,
             optional |-> missing_optional_terms]
      [] OTHER ->
            [prefix |-> "", type |-> NoError, traceback |-> NoError,
             required |-> {}, optional |-> {}]

\* No call in the task passes isRetriedError; only NotifyOfError does.
IsRetriedError(p) == FALSE

\* Callback with the message of tasks.py:52 formatted without the unbound
\* name: the loop goes on to the backoff sleep.
LogAttemptError_Bound == NoError

\* tasks.py:52: the message is built from str(e), and no name e is bound in
\* Callback or in the module, so evaluating it raises NameError.
LogAttemptError == "NameError"

\* Where execution goes on when the Callback at p returns: ReportError's
\* bare raise re-raises the exception being handled.
AfterCallback(p) ==
    CASE p = "CbInapplicable" -> "RmtreeInapplicable"
      [] p = "CbRunning" -> "Popen"
      [] p = "CbOutcome" -> "RunFinally"
      [] p = "CbReportRun" -> "RunFinally"
      [] p = "CbReportCheck" -> "done"
      [] p = "CbInterface" -> "InterfaceFinally"
      [] p = "CbReportParse" -> "CbReportInterface"
      [] p = "CbReportInterface" -> "InterfaceFinally"

CallbackReturns ==
    /\ pc' = AfterCallback(pc)
    /\ raised' = IF pc = "CbReportCheck" THEN exc ELSE raised
    /\ attempt' = 0
    /\ UNCHANGED <<exc, cbRaised>>

CallbackRaises(e) ==
    /\ Throw(e)
    /\ cbRaised' = Append(cbRaised, e)
    /\ attempt' = 0
    /\ UNCHANGED <<sleeps, notifyQueue>>

\* Where the stream of an attachment stands once requests.post has read it.
EndOfStream == 1

\* One pass of the for loop of Callback (tasks.py:49-67): one requests.post.
\* The post raises, or answers.  On an error status the message of line 52 is
\* evaluated first; were it to succeed, the sleep and the rewind (fp.seek(0)
\* on the attachment) would follow, and after the last attempt the else clause
\* of the loop, which schedules NotifyOfError unless isRetriedError.  On any other status the loop breaks
\* and Callback returns the response.
CallbackPost ==
    /\ pc \in CallbackPcs
    /\ \E resp \in Responses :
          /\ posts' = Append(posts, [call |-> pc,
                                     returntype |-> ReturnType(pc),
                                     returnmsg |-> ReturnMsg(pc),
                                     files |-> (pc = "CbOutcome"),
                                     position |-> filePos,
                                     members |-> IF pc = "CbOutcome" THEN archive ELSE <<>>,
                                     attempt |-> attempt,
                                     response |-> resp])
          /\ IF resp = NoResponse
             THEN CallbackRaises("ConnectionError")
             ELSE IF IsErrorStatus(resp)
                  THEN IF LogAttemptError # NoError
                       THEN CallbackRaises(LogAttemptError)
                       ELSE /\ sleeps' = Append(sleeps, BackoffBase * 2^attempt)
                            /\ IF attempt + 1 < WEB_LAB_MAX_CALLBACK_ATTEMPTS
                               THEN /\ attempt' = attempt + 1
                                    /\ UNCHANGED <<pc, exc, raised, cbRaised, notifyQueue>>
                               ELSE /\ notifyQueue' =
                                          IF IsRetriedError(pc) THEN notifyQueue
                                          ELSE Append(notifyQueue,
                                                      [returntype |-> "failed",
                                                       returnmsg |-> "No response received from server",
                                                       countdown |-> NotifyCountdown])
                                    /\ CallbackReturns
                  ELSE /\ CallbackReturns
                       /\ UNCHANGED <<sleeps, notifyQueue>>
          /\ filePos' = IF pc # "CbOutcome" THEN filePos
                        ELSE IF IsErrorStatus(resp) /\ LogAttemptError = NoError
                             THEN 0
                             ELSE EndOfStream
    /\ UNCHANGED <<jobVars, pureVars, handles, tempDirExists, rmtrees, compatVars, childVars, packVars,
                   firstError, softLimitAt, gets>>

(* --------------------------------------------------------- specification *)

Next ==
    \/ Submit
    \/ MakeTempDir
    \/ Wget
    \/ UnpackArchive
    \/ FindFittingSpec
    \/ DetermineCompatibility
    \/ RmtreeInapplicable
    \/ Popen
    \/ Wait
    \/ SoftTimeLimit
    \/ Package
    \/ RunFinally
    \/ CallbackPost

Spec == Init /\ [][Next]_vars

\* UnpackArchive on its own: the arguments are chosen at the start and the
\* call is made once.
InitUnpack ==
    /\ pc = "UnpackArchive"
    /\ task = "CheckExperiment"
    /\ form = NoForm
    /\ datasetUrl = None
    /\ fittingSpecUrl = None
    /\ TaskIdle
    /\ packRuns = <<>>
    /\ unpackIn \in [archive : Archives, contentType : ContentTypes,
                     ignoreManifest : BOOLEAN]
    /\ unpackOut = NotCalled
    /\ WorkersIdle

UnpackCall ==
    /\ pc = "UnpackArchive"
    /\ unpackOut' = Unpacked(unpackIn.archive, unpackIn.contentType,
                             unpackIn.ignoreManifest)
    /\ pc' = "done"
    /\ UNCHANGED <<jobVars, taskVars, packRuns, unpackIn, workerVars>>

NextUnpack == UnpackCall

SpecUnpack == InitUnpack /\ [][NextUnpack]_vars

\* The packaging step of RunExperiment on its own: an output tree without a
\* manifest.xml and a timeout flag are chosen at the start, and the step is
\* run twice on what is then on disk.
PackRuns == 2

InitPack ==
    /\ pc = "Package"
    /\ task = "CheckExperiment"
    /\ form = NoForm
    /\ datasetUrl = None
    /\ fittingSpecUrl = None
    /\ tempDirExists = TRUE
    /\ rmtrees = 0
    /\ missing_terms = {}
    /\ missing_optional_terms = {}
    /\ compatChecked = TRUE
    /\ child \in {"exited", "killed"}
    /\ childLog = <<>>
    /\ retcode = 0
    /\ timeout = (child = "killed")
    /\ tree \in {t \in OutputTrees : \A i \in DOMAIN t : t[i].name # "manifest.xml"}
    /\ archive = <<>>
    /\ outcome = None
    /\ tempErrors = <<>>
    /\ handles = {}
    /\ filePos = 0
    /\ attempt = 0
    /\ posts = <<>>
    /\ sleeps = <<>>
    /\ notifyQueue = <<>>
    /\ exc = NoError
    /\ firstError = NoError
    /\ softLimitAt = None
    /\ cbRaised = <<>>
    /\ gets = <<>>
    /\ raised = NoError
    /\ PureIdle

PackageCall ==
    /\ pc = "Package"
    /\ Len(packRuns) < PackRuns
    /\ WriteArchive
    /\ packRuns' = Append(packRuns, archive')
    /\ UNCHANGED <<pc, jobVars, ioVars, unpackIn, unpackOut, workerVars, tempDirExists, rmtrees,
                   compatVars,
                   child, childLog, retcode, timeout, cbVars, exc, firstError,
                   softLimitAt, gets, raised>>

NextPack == PackageCall

SpecPack == InitPack /\ [][NextPack]_vars

(* --------------------------------------------------- the interface tasks *)

\* tasks.py:107 load_model(main_model_path), tasks.py:143 Protocol(
\* main_proto_path): the file parses, or the call raises.
ParseInterface ==
    /\ pc = "Parse"
    /\ \E parsed \in BOOLEAN :
          IF parsed
          THEN /\ pc' = NextStage(pc)
               /\ UNCHANGED <<exc, raised, firstError, cbVars>>
          ELSE Fail(IF task = "GetModelInterface" THEN "ValueError" ELSE "ProtocolError")
    /\ UNCHANGED <<jobVars, pureVars, ioVars, tempDirExists, rmtrees, compatVars, childVars,
                   packVars, softLimitAt, gets>>

\* tasks.py:108 get_used_annotations(model), tasks.py:148-149
\* proto.get_required_model_annotations() and get_protocol_interface(): the
\* terms are read, or a call raises.
GetTerms ==
    /\ pc = "Terms"
    /\ \E read \in BOOLEAN :
          IF read
          THEN /\ pc' = NextStage(pc)
               /\ UNCHANGED <<exc, raised, firstError, cbVars>>
          ELSE Fail("KeyError")
    /\ UNCHANGED <<jobVars, pureVars, ioVars, tempDirExists, rmtrees, compatVars, childVars,
                   packVars, softLimitAt, gets>>

\* tasks.py:118-121, 161-164, finally: the temporary folder is removed if it
\* was created; then the task returns, or the exception being handled leaves it.
InterfaceFinally ==
    /\ pc = "InterfaceFinally"
    /\ IF tempDirExists
       THEN /\ tempDirExists' = FALSE
            /\ rmtrees' = rmtrees + 1
       ELSE UNCHANGED <<tempDirExists, rmtrees>>
    /\ raised' = exc
    /\ pc' = "done"
    /\ UNCHANGED <<jobVars, pureVars, ioVars, compatVars, childVars, packVars, cbVars, exc,
                   firstError, softLimitAt, gets>>

\* A worker starts GetModelInterface or GetProtocolInterface.
InitInterface ==
    /\ pc = "MakeTempDir"
    /\ task \in InterfaceTasks
    /\ form = NoForm
    /\ datasetUrl = None
    /\ fittingSpecUrl = None
    /\ TaskIdle
    /\ PureIdle

NextInterface ==
    \/ MakeTempDir
    \/ Wget
    \/ UnpackArchive
    \/ ParseInterface
    \/ GetTerms
    \/ CallbackPost
    \/ InterfaceFinally

SpecInterface == InitInterface /\ [][NextInterface]_vars

(* ------------------------------------------------- the pool of workers *)

\* CheckExperiment tasks on a pool of worker processes (celeryconfig.py:17,
\* 23: a process takes one task at a time and runs many, one after another).
\* The processes share the file system; os.environ belongs to the process.
\* A task is followed by what it shares with others: its workspace and the
\* environment of its process.
InitWorkers ==
    /\ pc = "idle"
    /\ task = "CheckExperiment"
    /\ form = NoForm
    /\ datasetUrl = None
    /\ fittingSpecUrl = None
    /\ TaskIdle
    /\ PureIdle

WorkerFrame == UNCHANGED <<pc, jobVars, taskVars, packRuns, unpackIn, unpackOut>>

\* A worker process without a task takes CheckExperiment from the queue.
TaskReceived ==
    \E w \in Workers :
        /\ jobs[w].pc = "idle"
        /\ jobs' = [jobs EXCEPT ![w] = [pc |-> "MakeTempDir", temp_dir |-> <<>>]]
        /\ UNCHANGED <<os_environ, temp_dirs>>
        /\ WorkerFrame

\* tasks.py:87, tempfile.mkdtemp makes a directory under a name not in use.
WorkerMakeTempDir ==
    \E w \in Workers, d \in TempDirNames \ temp_dirs :
        /\ jobs[w].pc = "MakeTempDir"
        /\ temp_dirs' = temp_dirs \cup {d}
        /\ jobs' = [jobs EXCEPT ![w] = [pc |-> "CheckExperiment", temp_dir |-> <<d>>]]
        /\ UNCHANGED os_environ
        /\ WorkerFrame

\* shutil.rmtree(path): the directory of that name is gone.
Rmtree(path) == temp_dirs \ {path[1]}

\* tasks.py:188-250, the stages of CheckExperiment up to RunExperiment write
\* under temp_dir only.  An error ends the task after ReportError, a model
\* that lacks terms ends it after rmtree(temp_dir), otherwise RunExperiment
\* is entered.
WorkerCheckExperiment ==
    \E w \in Workers, result \in {"error", "inapplicable", "compatible"} :
        /\ jobs[w].pc = "CheckExperiment"
        /\ temp_dirs' = IF result = "inapplicable" THEN Rmtree(jobs[w].temp_dir)
                        ELSE temp_dirs
        /\ jobs' = [jobs EXCEPT ![w] = IF result = "compatible"
                                       THEN [@ EXCEPT !.pc = "RunExperiment"]
                                       ELSE NoJob]
        /\ UNCHANGED os_environ
        /\ WorkerFrame

\* tasks.py:270-278, the 'running' Callback, then os.environ[key] = value for
\* every item of config['environment'].  A Callback that raises goes to the
\* except and finally clauses.
SetEnvironment ==
    \E w \in Workers, callback \in {"returns", "raises"} :
        /\ jobs[w].pc = "RunExperiment"
        /\ os_environ' = IF callback = "returns"
                         THEN [os_environ EXCEPT ![w] = Configured]
                         ELSE os_environ
        /\ jobs' = [jobs EXCEPT ![w].pc = IF callback = "returns" THEN "Popen"
                                          ELSE "RunFinally"]
        /\ UNCHANGED temp_dirs
        /\ WorkerFrame

\* tasks.py:310-390, the child runs with a copy of os.environ and writes
\* under tempDir; packaging and the final Callback write under tempDir.
WorkerChild ==
    \E w \in Workers :
        /\ jobs[w].pc = "Popen"
        /\ jobs' = [jobs EXCEPT ![w].pc = "RunFinally"]
        /\ UNCHANGED <<os_environ, temp_dirs>>
        /\ WorkerFrame

\* tasks.py:392-393, finally: shutil.rmtree(tempDir); the task has ended.
WorkerRunFinally ==
    \E w \in Workers :
        /\ jobs[w].pc = "RunFinally"
        /\ temp_dirs' = Rmtree(jobs[w].temp_dir)
        /\ jobs' = [jobs EXCEPT ![w] = NoJob]
        /\ UNCHANGED os_environ
        /\ WorkerFrame

NextWorkers ==
    \/ TaskReceived
    \/ WorkerMakeTempDir
    \/ WorkerCheckExperiment
    \/ SetEnvironment
    \/ WorkerChild
    \/ WorkerRunFinally

SpecWorkers == InitWorkers /\ [][NextWorkers]_vars

(* ------------------------------------------------- history of the reports *)

PostIds == 1..Len(posts)

\* The POSTs that open a Callback invocation carrying a terminal returntype:
\* one per terminal report attempted.
TerminalReports ==
    { i \in PostIds : posts[i].attempt = 0 /\ posts[i].returntype \in TerminalTypes }

\* The endpoint did not answer the POST, or answered with an error status.
BadResponse(r) == r = NoResponse \/ IsErrorStatus(r)

\* The POST after posts[i] is the next attempt of the same invocation, or the
\* invocation is still in its loop, about to make that attempt.
RetryFollows(i) ==
    IF i < Len(posts)
    THEN /\ posts[i + 1].call = posts[i].call
         /\ posts[i + 1].attempt = posts[i].attempt + 1
    ELSE /\ pc = posts[i].call
         /\ attempt = posts[i].attempt + 1

\* RunExperiment was entered: its first statement is the 'running' Callback.
RunEntered == pc = "CbRunning" \/ \E i \in PostIds : posts[i].call = "CbRunning"

(* ---------------------------------------------------------------- claims *)

\* C1 (as claimed): once CheckExperiment has finished, on every branch, the
\* workspace made by MakeTempDir no longer exists.
C1_WorkspaceRemovedOnEveryBranch ==
    pc = "done" => ~tempDirExists

\* C2 (as claimed): at most one terminal report (success, partial, failed or
\* inapplicable) is attempted for the job, on every path.
C2_AtMostOneTerminalReport ==
    Cardinality(TerminalReports) <= 1

\* The assumption of C3 on the endpoint: it never fails as many POSTs in a row
\* as one Callback invocation may make, so a retry within the budget of any
\* invocation would get through.
EndpointAnswersWithinBudget ==
    \A i \in PostIds :
        i + WEB_LAB_MAX_CALLBACK_ATTEMPTS - 1 <= Len(posts) =>
            \E j \in i..(i + WEB_LAB_MAX_CALLBACK_ATTEMPTS - 1) :
                ~BadResponse(posts[j].response)

\* C3 (as claimed, in the form a finite run refutes): when the task has ended
\* and the endpoint answered within the retry budget, a terminal returntype
\* was delivered, that is, some terminal report got a response outside 400-599.
C3_TerminalReportDelivered ==
    (pc = "done" /\ EndpointAnswersWithinBudget) =>
        \E i \in PostIds :
            /\ posts[i].returntype \in TerminalTypes
            /\ ~BadResponse(posts[i].response)

\* C4 (as claimed): with missing required terms the job's terminal report is
\* 'inapplicable' and RunExperiment is never entered (no 'running' Callback, no
\* child); with none missing RunExperiment is entered, whatever optional terms
\* are missing.
C4_InapplicableIffRequiredMissing ==
    /\ (compatChecked /\ missing_terms # {}) =>
          /\ ~RunEntered
          /\ childLog = <<>>
          /\ \A i \in TerminalReports : posts[i].returntype = "inapplicable"
          /\ pc = "done" => TerminalReports # {}
    /\ (compatChecked /\ missing_terms = {}) => RunEntered

\* C5 (as claimed): an invocation makes at most the configured number of POSTs;
\* after a response with status in 400-599, while attempts remain, it sleeps
\* 60 * 2^(k-1) seconds after the k-th attempt and POSTs again; it stops at the
\* first response outside that range, and then schedules no NotifyOfError.
C5_RetryWithBackoffOnErrorStatus ==
    \A i \in PostIds :
        /\ posts[i].attempt < WEB_LAB_MAX_CALLBACK_ATTEMPTS
        /\ (IsErrorStatus(posts[i].response) /\
            posts[i].attempt + 1 < WEB_LAB_MAX_CALLBACK_ATTEMPTS) =>
                /\ RetryFollows(i)
                /\ \E k \in 1..Len(sleeps) : sleeps[k] = BackoffBase * 2^(posts[i].attempt)
        /\ (posts[i].response # NoResponse /\ ~IsErrorStatus(posts[i].response)) =>
                ~RetryFollows(i)

\* The invocations that ended with every response an error status: the last
\* POST of each.
ExhaustedCalls ==
    { i \in PostIds : IsErrorStatus(posts[i].response) /\ ~RetryFollows(i) }

\* C6 (as claimed): an invocation all of whose attempts got an error status
\* schedules exactly one NotifyOfError, and nothing else schedules one.
C6_OneFallbackPerExhaustedCallback ==
    Len(notifyQueue) = Cardinality(ExhaustedCalls)

\* C7 (as claimed): a POST that raises is followed by a further attempt while
\* attempts remain, and the failure never leaves Callback as an exception.
C7_OutrightFailureIsRetried ==
    /\ \A i \in PostIds :
          (posts[i].response = NoResponse /\
           posts[i].attempt + 1 < WEB_LAB_MAX_CALLBACK_ATTEMPTS) => RetryFollows(i)
    /\ \A k \in 1..Len(cbRaised) : cbRaised[k] # "ConnectionError"

\* The errors C8 calls job-terminal, as the statements of the task raise them.
JobTerminalErrors ==
    {"HTTPError", "ConnectionError", "BadZipFile", "ValueError", "ProtocolError",
     "OSError"}

\* C8 (as claimed): when a job-terminal error was raised, a 'failed' report
\* naming that error was sent and the same error left the task.
C8_ErrorReportedThenReraised ==
    (pc = "done" /\ firstError \in JobTerminalErrors) =>
        /\ \E i \in PostIds :
              /\ posts[i].returntype = "failed"
              /\ posts[i].returnmsg.type = firstError
              /\ posts[i].returnmsg.traceback = firstError
        /\ raised = firstError

\* The set of member names of an archive.
NameSet(members) == { members[i].name : i \in 1..Len(members) }

\* The reports that carry the result archive.
ArchiveReports == { i \in PostIds : posts[i].call = "CbOutcome" }

\* The child left a regular file named errors.txt among its outputs.
HadErrorsFile == \E i \in 1..Len(tree) : tree[i].isfile /\ tree[i].name = "errors.txt"

\* The archive has an errors.txt member that ends with the timeout notice:
\* the child's own errors.txt with the notice appended, or a new file holding
\* only the notice.
NoticeInArchive(members) ==
    \E k \in 1..Len(members) :
        /\ members[k].name = "errors.txt"
        /\ members[k].data = IF HadErrorsFile
                             THEN Append(ChildData("errors.txt"), TimeoutNotice)
                             ELSE <<TimeoutNotice>>

\* What the soft time limit firing during child.wait() leads to, whatever the
\* classification: the child is terminated and killed, the timeout is not
\* raised as an error, and any archive posted carries the notice.
TimeoutHandled ==
    /\ timeout
    /\ childLog = <<"spawn", "terminate", "sleep(5)", "kill">>
    /\ firstError # "SoftTimeLimitExceeded"
    /\ \A i \in ArchiveReports : NoticeInArchive(posts[i].members)

\* C9 (as claimed): after a timeout during the wait the child is terminated,
\* the archive posted holds errors.txt ending with the notice, and the outcome
\* reported is 'partial' if a member name ends in plot_data.csv, else 'failed'.
C9_TimeoutPartialElseFailed ==
    softLimitAt = "Wait" =>
        /\ TimeoutHandled
        /\ \A i \in ArchiveReports :
              posts[i].returntype =
                  IF \E n \in NameSet(posts[i].members) : EndsWith(n, "plot_data.csv")
                  THEN "partial"
                  ELSE "failed"

\* C9 (amended): as above, but the outcome reported is 'success' if a member
\* is named exactly 'success', and only otherwise 'partial' or 'failed'.
C9_TimeoutOutcomeByPriority ==
    softLimitAt = "Wait" =>
        /\ TimeoutHandled
        /\ \A i \in ArchiveReports :
              posts[i].returntype =
                  IF "success" \in NameSet(posts[i].members)
                  THEN "success"
                  ELSE IF \E n \in NameSet(posts[i].members) : EndsWith(n, "plot_data.csv")
                       THEN "partial"
                       ELSE "failed"

\* C9 witness: a timed-out run whose child had left errors.txt and a plot
\* data file has posted its archive as 'partial'.
C9_Witness ==
    /\ softLimitAt = "Wait"
    /\ HadErrorsFile
    /\ \E i \in ArchiveReports :
          /\ posts[i].returntype = "partial"
          /\ NoticeInArchive(posts[i].members)

\* The fixed priority of C10 over a set of names.
ByPriority(names) ==
    CASE "success" \in names -> "success"
      [] "success" \notin names /\ (\E n \in names : EndsWith(n, "plot_data.csv")) -> "partial"
      [] OTHER -> "failed"

\* C10: the outcome RunExperiment reports is decided by the set of member
\* names of the result archive alone, with the priority success, partial,
\* failed; the exit code of the child and the timeout flag play no part.
C10_OutcomeIsFunctionOfNames ==
    /\ \A i \in ArchiveReports :
          posts[i].returntype = ByPriority(NameSet(posts[i].members))
    /\ archive # <<>> => outcome = ByPriority(NameSet(archive))

\* C10 witness: a child that exited with a nonzero code and left a file named
\* success has been reported as 'success'.
C10_Witness ==
    /\ retcode # 0
    /\ \E i \in ArchiveReports :
          /\ posts[i].returntype = "success"
          /\ "success" \in NameSet(posts[i].members)

\* The call of UnpackArchive made on its own, and what the archive holds.
UnpackedEntries == unpackIn.archive.entries
UnpackedItems == unpackIn.archive.manifest.items
ManifestRead ==
    /\ ~unpackIn.ignoreManifest
    /\ \E i \in DOMAIN UnpackedEntries : UnpackedEntries[i] = MANIFEST
MasterItems == {i \in DOMAIN UnpackedItems : UnpackedItems[i].master}
ExpectedEntries ==
    {i \in DOMAIN UnpackedEntries :
        /\ UnpackedEntries[i] # MANIFEST
        /\ SplitExt(UnpackedEntries[i]) \in EXPECTED_EXTENSIONS(unpackIn.contentType)}
\* The path of a member or location under the extraction directory.
UnderOutputPath(file) == output_path(unpackIn.contentType) \o <<"/">> \o file
\* A location with one leading "/" removed.
WithoutLeadingSlash(location) ==
    IF location # <<>> /\ Head(location) = "/" THEN Tail(location) ELSE location
\* The path names something beneath the extraction directory.
LiesUnderOutputPath(path) ==
    LET p == Resolve(path)
        d == Resolve(output_path(unpackIn.contentType))
    IN  Len(p) > Len(d) /\ SubSeq(p, 1, Len(d)) = d

\* C11: when UnpackArchive returns for an archive whose manifest is read and
\* names a master item, the path returned is that of the first master item's
\* location under the extraction directory, one leading "/" removed; when it
\* returns for an archive without a manifest, the path returned is that of
\* the first member, in listing order, other than manifest.xml whose
\* extension is expected for the content kind.
C11_PrimaryFileByManifestThenExtension ==
    (unpackOut.called /\ unpackOut.error = NoError) =>
        /\ (ManifestRead /\ MasterItems # {}) =>
              \E i \in MasterItems :
                 /\ \A j \in MasterItems : i <= j
                 /\ UnpackedItems[i].located
                 /\ unpackOut.path =
                       UnderOutputPath(WithoutLeadingSlash(UnpackedItems[i].location))
        /\ (\A i \in DOMAIN UnpackedEntries : UnpackedEntries[i] # MANIFEST) =>
              \E i \in ExpectedEntries :
                 /\ \A j \in ExpectedEntries : i <= j
                 /\ unpackOut.path = UnderOutputPath(UnpackedEntries[i])

\* C12: UnpackArchive fails or returns a path that exists and lies under the
\* extraction directory; it fails when neither the manifest nor the
\* extension rule yields a file, and it fails, without falling back, when the
\* manifest's master file is not on disk after extraction.
C12_PrimaryPathExistsUnderExtractionDir ==
    unpackOut.called =>
        /\ unpackOut.error = NoError =>
              /\ Exists(unpackOut.path, Disk(UnpackedEntries, unpackIn.contentType))
              /\ LiesUnderOutputPath(unpackOut.path)
        /\ ((ManifestRead => MasterItems = {}) /\ ExpectedEntries = {}) =>
              unpackOut.error # NoError
        /\ (/\ ManifestRead
            /\ \E i \in MasterItems :
                  /\ \A j \in MasterItems : i <= j
                  /\ UnpackedItems[i].located
                  /\ ~Exists(UnderOutputPath(WithoutLeadingSlash(UnpackedItems[i].location)),
                             Disk(UnpackedEntries, unpackIn.contentType))) =>
              unpackOut.error # NoError

\* C13: the result archive holds exactly one member named manifest.xml, the
\* synthesized one, which lists the other members; it holds stdout.txt and
\* every regular output file not named manifest.xml under its base name.
C13_ExactlyOneSynthesizedManifest ==
    archive # <<>> =>
        /\ Cardinality({i \in DOMAIN archive : archive[i].name = "manifest.xml"}) = 1
        /\ archive[Len(archive)] =
              [name |-> "manifest.xml",
               data |-> CombineManifest(NameList(SubSeq(archive, 1, Len(archive) - 1)))]
        /\ "stdout.txt" \in NameSet(archive)
        /\ \A i \in DOMAIN tree :
              (tree[i].isfile /\ tree[i].name # "manifest.xml") =>
                  tree[i].name \in NameSet(archive)

\* The manifest a packaging run synthesized.
ManifestOf(members) == members[Len(members)].data

\* C14: packaging run twice on the same output tree without a manifest.xml,
\* with the same timeout flag, gives the same synthesized manifest and the
\* same member names both times.
C14_PackagingTwiceSameMembers ==
    \A i, j \in DOMAIN packRuns :
        /\ ManifestOf(packRuns[i]) = ManifestOf(packRuns[j])
        /\ NameList(packRuns[i]) = NameList(packRuns[j])
        /\ NameSet(packRuns[i]) = NameSet(packRuns[j])

\* C14 witness: two timed-out runs over outputs without an errors.txt, so the
\* first left tempDir/errors.txt behind and the second appended its notice
\* to it.
C14_Witness ==
    /\ Len(packRuns) >= 2
    /\ timeout
    /\ Len(tempErrors) >= 2
    /\ "errors.txt" \in NameSet(packRuns[2])
    /\ \E i \in DOMAIN tree : tree[i].isfile

\* C15: in CheckExperiment a protocol or model that does not parse is
\* reported 'failed' with a message that starts with an 'Unable to determine
\* interface' prefix and is never reported 'inapplicable'; a compatibility
\* rejection is reported 'inapplicable' with the missing required and
\* optional terms and is never reported 'failed'.
C15_ParseFailureDistinctFromRejection ==
    /\ \A i \in PostIds :
          /\ posts[i].returnmsg.type = "ProtocolError" =>
                /\ posts[i].returntype = "failed"
                /\ posts[i].returnmsg.prefix \in
                      {ModelInterfacePrefix, ProtocolInterfacePrefix}
          /\ posts[i].returntype = "inapplicable" =>
                /\ posts[i].returnmsg.type = NoError
                /\ posts[i].returnmsg.required = missing_terms
                /\ posts[i].returnmsg.required # {}
                /\ posts[i].returnmsg.optional = missing_optional_terms
    /\ firstError = "ProtocolError" =>
          \A i \in PostIds : posts[i].returntype # "inapplicable"
    /\ missing_terms # {} =>
          \A i \in PostIds : posts[i].returntype # "failed"

\* The errors Wget raises: requests.get failed, or raise_for_status did.
WgetErrors == {"HTTPError", "ConnectionError"}
WgetFailed == firstError \in WgetErrors

\* What holds in every state once a download has failed.
AfterWgetFailed ==
    /\ pc \in {"CbReportCheck", "done"}
    /\ ~compatChecked
    /\ ~RunEntered
    /\ child = None /\ childLog = <<>>
    /\ archive = <<>>
    /\ \A i \in PostIds :
          /\ posts[i].returntype = "failed"
          /\ posts[i].returnmsg.type \in WgetErrors
    /\ Len(posts) <= 1
    /\ pc = "done" => Cardinality(TerminalReports) = 1

\* C16: Wget sends one GET per URL and never a second; once the GET of an
\* archive has failed no further GET is sent, nothing is unpacked, the
\* compatibility check and the child are never started, and the one terminal
\* report of the job is 'failed'.
C16_FailedDownloadEndsTheJob ==
    /\ [](\A i, j \in DOMAIN gets : gets[i] = gets[j] => i = j)
    /\ [](WgetFailed => AfterWgetFailed)
    /\ [][WgetFailed => (gets' = gets /\ pc' \in {"CbReportCheck", "done"})]_vars

\* C16 witness: model and protocol were fetched, the GET of the dataset was
\* answered with an error status, and the job has ended with its one report.
C16_Witness ==
    /\ pc = "done"
    /\ firstError = "HTTPError"
    /\ gets = <<modelUrl, protocolUrl, datasetUrl>>
    /\ Len(posts) = 1
    /\ posts[1].returntype = "failed"

\* What was done to a child that was spawned and then stopped by a handler.
StoppedInOrder == childLog = <<"spawn", "terminate", "sleep(5)", "kill">>

C20_HandlesClosedWithinStage ==
    /\ pc = "Package" => handles = {}
    /\ pc = "CbOutcome" => handles \subseteq {UploadStream}
    /\ pc \in {"CbReportRun", "RunFinally", "CbReportCheck", "done"} => handles = {}

\* Exactly one of the two fitting fields is in the submitted form.
PartialFitting == (form.fittingSpecUrl = None) # (form.fittingDataUrl = None)
BothFitting == form.fittingSpecUrl # None /\ form.fittingDataUrl # None
\* The CheckExperiment task has started; the child has been spawned.
TaskStarted == pc \notin {"Submit", "rejected"}
ChildSpawned == child # None

\* C19: a submission with exactly one fitting field is rejected and nothing
\* is scheduled or run for it: no workspace, no GET, no report, no child; and
\* a child that is spawned runs the fitting command line iff both fields
\* were submitted.
C19_PartialFittingRejected ==
    /\ PartialFitting =>
          /\ ~TaskStarted
          /\ ~tempDirExists /\ gets = <<>> /\ posts = <<>> /\ ~ChildSpawned
          /\ datasetUrl = None /\ fittingSpecUrl = None
    /\ ChildSpawned => (RunArgs = "fitting" <=> BothFitting)
    /\ (TaskStarted /\ BothFitting) =>
          (datasetUrl = form.fittingDataUrl /\ fittingSpecUrl = form.fittingSpecUrl)
    /\ (TaskStarted /\ ~BothFitting) => ~IsFit

\* C19 witness: a form that holds the fitting specification and no dataset
\* has been rejected by the front end.
C19_Witness ==
    /\ pc = "rejected"
    /\ form.fittingSpecUrl # None
    /\ form.fittingDataUrl = None

\* MakeTempDir has made the job's workspace.
WorkspaceMade == tempDirExists \/ rmtrees > 0

\* C21: shutil.rmtree is never executed twice on the job's workspace, and
\* when the task has ended, on whatever path, it was executed once on the
\* workspace MakeTempDir made.
C21_WorkspaceRemovedExactlyOnce ==
    /\ rmtrees <= 1
    /\ (pc = "done" /\ WorkspaceMade) => rmtrees = 1

\* The workers whose task has a workspace.
WithWorkspace == { w \in Workers : jobs[w].temp_dir # <<>> }
\* The workers whose task has not assigned to os.environ.
BeforeSetEnvironment ==
    { w \in Workers : jobs[w].pc \in {"MakeTempDir", "CheckExperiment", "RunExperiment"} }

\* C22 (as claimed): tasks share no mutable state.  Two running tasks never
\* have the same workspace, the workspace of a running task is on disk (no
\* other task's cleanup removed it), and a task reads no environment variable
\* that another task assigned: until it assigns them itself, the variables of
\* its process are as the process inherited them.
C22_JobsShareNoMutableState ==
    /\ \A v, w \in WithWorkspace : v # w => jobs[v].temp_dir # jobs[w].temp_dir
    /\ \A w \in WithWorkspace : jobs[w].temp_dir[1] \in temp_dirs
    /\ \A w \in BeforeSetEnvironment : os_environ[w] = Inherited

\* The part of C22 about workspaces alone.
C22_WorkspacesPrivate ==
    /\ \A v, w \in WithWorkspace : v # w => jobs[v].temp_dir # jobs[w].temp_dir
    /\ \A w \in WithWorkspace : jobs[w].temp_dir[1] \in temp_dirs

\* The Callback invocations that carried a terminal returntype and gave up
\* after the last attempt got an error status: the last POST of each.
UndeliveredTerminalReports ==
    { i \in PostIds : /\ posts[i].returntype \in TerminalTypes
                      /\ posts[i].attempt + 1 = WEB_LAB_MAX_CALLBACK_ATTEMPTS
                      /\ IsErrorStatus(posts[i].response) }

\* The POSTs of a terminal returntype other than 'failed' that the front end
\* answered with a status outside 400-599.
DeliveredOtherTerminal ==
    { i \in PostIds : /\ posts[i].returntype \in TerminalTypes \ {"failed"}
                      /\ ~BadResponse(posts[i].response) }

\* The 'running' status Callback got an error status from the front end.
RunningRefused ==
    \E i \in PostIds : posts[i].call = "CbRunning" /\ IsErrorStatus(posts[i].response)

C24_InterfaceTaskReportsOnce ==
    (task \in InterfaceTasks /\ pc = "done") =>
        /\ Cardinality(TerminalReports) = 1
        /\ ~tempDirExists

\* The part of C24 about the temporary directory alone: it is removed once
\* if it was created, and the task never ends with it on disk.
C24_TempDirRemoved ==
    /\ rmtrees <= 1
    /\ (task \in InterfaceTasks /\ pc = "done") => ~tempDirExists

\* Every Callback of the task was answered with a status outside 400-599.
EveryPostDelivered == \A i \in PostIds : ~BadResponse(posts[i].response)

\* C24 with the front end answering every POST: still exactly one report.
C24_ReportsOnceWhenDelivered ==
    (task \in InterfaceTasks /\ pc = "done" /\ EveryPostDelivered) =>
        Cardinality(TerminalReports) = 1

====
